---- MODULE Spec2Model ----
(***************************************************************************)
(* Model of the move analysis and commentary pipeline of main.py: the     *)
(* /analyze_and_move handler, its helpers game_phase, move_quality and    *)
(* explain_move, and the process-wide move_log.                           *)
(*                                                                         *)
(* The handler is an asyncio coroutine run by one event loop: the code    *)
(* between two awaits runs without interruption, so each action below is  *)
(* one such segment.  requests.post inside explain_move is a synchronous  *)
(* call made on the event-loop thread; the time it takes is the state     *)
(* "explaining", during which the thread is held (variable blocked).      *)
(*                                                                         *)
(* The rules library, the engine and the commentary backend are external: *)
(* a position is abstracted to its side to move and its material, a move  *)
(* to what stands on its squares, and the engine's and backend's answers  *)
(* are chosen nondeterministically from the input sets of a specification.*)
(***************************************************************************)
EXTENDS Integers, Sequences, FiniteSets

VARIABLES
    req,       \* req[r]: the GameState payload of request r (fen, user_move)
    task,      \* task[r]: position in the handler and its local variables
    engine,    \* engine[r]: the engine process of request r
    ops,       \* ops[r]: the external calls request r has issued, in order
    move_log,  \* the process-wide list move_log
    resp,      \* resp[r]: what the transport returned to the caller
    blocked    \* the request holding the event-loop thread in a blocking call, or 0

vars == <<req, task, engine, ops, move_log, resp, blocked>>

\* ------------------------------------------------------------------ bounds

NumReq == 2

Req == 1..NumReq

\* ------------------------------------------------------------- characters

\* Strings the code inspects are sequences of one-character strings.
Whitespace == {" ", "\n"}

MoveNoted == <<"M", "o", "v", "e", " ", "n", "o", "t", "e", "d", ".">>

NoExplanation ==
    <<"N", "o", " ", "e", "x", "p", "l", "a", "n", "a", "t", "i", "o", "n", " ",
      "a", "v", "a", "i", "l", "a", "b", "l", "e", ".">>

RECURSIVE LStrip(_)
LStrip(s) ==
    IF s # <<>> /\ Head(s) \in Whitespace THEN LStrip(Tail(s)) ELSE s

RECURSIVE RStrip(_)
RStrip(s) ==
    IF s # <<>> /\ s[Len(s)] \in Whitespace
    THEN RStrip(SubSeq(s, 1, Len(s) - 1))
    ELSE s

\* str.strip()
Strip(s) == RStrip(LStrip(s))

\* ------------------------------------------------------- rules library

PieceTypes == {"P", "N", "B", "R", "Q", "K"}

PieceOrder == <<"P", "N", "B", "R", "Q", "K">>

Idx(p) == CHOOSE i \in 1..6 : PieceOrder[i] = p

Other(c) == IF c = "w" THEN "b" ELSE "w"

EmptyBoard ==
    [turn |-> "-", w |-> [p \in PieceTypes |-> 0], b |-> [p \in PieceTypes |-> 0]]

\* chess.Board(fen) raises ValueError on an undecodable encoding.
ValidFen(f) ==
    /\ Len(f) = 3
    /\ f[3] \in {"w", "b"}
    /\ Len(f[1]) = 6
    /\ Len(f[2]) = 6

\* chess.Board(fen): <<white material, black material, side to move>>
ParseFen(f) ==
    [turn |-> f[3],
     w |-> [p \in PieceTypes |-> f[1][Idx(p)]],
     b |-> [p \in PieceTypes |-> f[2][Idx(p)]]]

\* board.fen()
BoardFen(b) ==
    <<[i \in 1..6 |-> b.w[PieceOrder[i]]], [i \in 1..6 |-> b.b[PieceOrder[i]]], b.turn>>

\* chess.Move.from_uci raises on an undecodable encoding.
ValidUci(u) == Len(u) = 4

\* chess.Move.from_uci(u): what stands on the from-square ("empty", "opp" or the
\* mover's piece), what stands on the to-square ("empty", "own" or the
\* opponent's piece), the promotion piece, and whether the geometry of the
\* board lets the piece make the move (path clear, own king not left in check).
FromUci(u) == [from |-> u[1], to |-> u[2], promo |-> u[3], reach |-> u[4]]

\* move.uci()
MoveUci(m) == <<m.from, m.to, m.promo, m.reach>>

Material(b, c) == IF c = "w" THEN b.w ELSE b.b

\* move in board.legal_moves
IsLegal(b, m) ==
    /\ m.reach
    /\ m.from \in PieceTypes
    /\ Material(b, b.turn)[m.from] > 0
    /\ \/ m.to = "empty"
       \/ /\ m.to \in PieceTypes \ {"K"}
          /\ Material(b, Other(b.turn))[m.to] > 0
    /\ \/ m.promo = "none"
       \/ m.from = "P" /\ m.promo \in {"N", "B", "R", "Q"}

\* board.san(move), of the position before the move: piece letter (none for a
\* pawn), capture marker, promotion suffix; the squares are abstracted away.
San(b, m) ==
    (IF m.from = "P" THEN <<>> ELSE <<m.from>>)
    \o (IF m.to \in PieceTypes THEN <<"x">> ELSE <<>>)
    \o (IF m.promo # "none" THEN <<"=", m.promo>> ELSE <<>>)

PieceNameNoKing(m) ==
    IF m.from \notin PieceTypes \ {"K"} THEN "piece"
    ELSE CASE m.from = "P" -> "pawn"
           [] m.from = "N" -> "knight"
           [] m.from = "B" -> "bishop"
           [] m.from = "R" -> "rook"
           [] m.from = "Q" -> "queen"

\* PIECE_NAMES.get(piece.symbol().upper(), "piece") if piece else "piece"
PieceName(m) ==
    IF m.from \notin PieceTypes THEN "piece"
    ELSE CASE m.from = "P" -> "pawn"
           [] m.from = "N" -> "knight"
           [] m.from = "B" -> "bishop"
           [] m.from = "R" -> "rook"
           [] m.from = "Q" -> "queen"
           [] m.from = "K" -> "king"

\* board.push(move)
Push(b, m) ==
    LET own == Material(b, b.turn)
        opp == Material(b, Other(b.turn))
        own2 == IF m.promo = "none" THEN own
                ELSE [own EXCEPT !["P"] = @ - 1, ![m.promo] = @ + 1]
        opp2 == IF m.to \in PieceTypes THEN [opp EXCEPT ![m.to] = @ - 1] ELSE opp
    IN  [turn |-> Other(b.turn),
         w |-> IF b.turn = "w" THEN own2 ELSE opp2,
         b |-> IF b.turn = "w" THEN opp2 ELSE own2]

\* ------------------------------------------------------------ classifiers

PieceCountWhiteOnly(b) == b.w["Q"] + b.w["R"] + b.w["B"] + b.w["N"]

\* piece_count of game_phase
PieceCount(b) ==
    b.w["Q"] + b.b["Q"] + b.w["R"] + b.b["R"]
    + b.w["B"] + b.b["B"] + b.w["N"] + b.b["N"]

game_phase(b) ==
    IF PieceCount(b) > 10 THEN "opening"
    ELSE IF PieceCount(b) > 4 THEN "middlegame"
    ELSE "endgame"

move_quality_strict(e) ==
    IF e < -300 THEN "blunder"
    ELSE IF e <= -100 THEN "mistake"
    ELSE IF e <= -30 THEN "inaccuracy"
    ELSE IF e >= 80 THEN "strong"
    ELSE "neutral"

move_quality(e) ==
    IF e <= -300 THEN "blunder"
    ELSE IF e <= -100 THEN "mistake"
    ELSE IF e <= -30 THEN "inaccuracy"
    ELSE IF e >= 80 THEN "strong"
    ELSE "neutral"

\* ------------------------------------------------------------- evaluation

MateScore == 10000

NoInfo == [kind |-> "unset", v |-> 0]

\* score_info.relative.score(mate_score=10000) or 0, and 0 without a score
RelativeScore(info) ==
    CASE info.kind = "cp" -> info.v
      [] info.kind = "mate" ->
            IF info.v > 0 THEN MateScore - info.v ELSE -MateScore - info.v
      [] OTHER -> 0

\* if board.turn == chess.BLACK: evaluation = -evaluation
Normalize(b, e) == IF b.turn = "b" THEN -e ELSE e

\* ------------------------------------------------------------- commentary

\* explain_move, given what the backend call did: requests.post raised
\* ("raise"), r.json() raised ("badjson"), the body is no JSON object
\* ("notdict"), it has no "response" key ("nokey"), the key holds null
\* ("null"), or it holds a string ("text").
explain_move_swapped(out) ==
    CASE out.kind \in {"raise", "badjson", "notdict", "null"} -> MoveNoted
      [] out.kind = "nokey" -> NoExplanation
      [] OTHER -> IF Strip(out.text) = <<>> THEN NoExplanation ELSE Strip(out.text)

explain_move(out) ==
    CASE out.kind \in {"raise", "badjson", "notdict", "null"} -> NoExplanation
      [] out.kind = "nokey" -> MoveNoted
      [] OTHER -> IF Strip(out.text) = <<>> THEN MoveNoted ELSE Strip(out.text)

NoOut == [kind |-> "unset", text |-> <<>>]

\* ------------------------------------------------------------------ state

Terminal == {"error", "fault", "done"}

Suspended == {"starting", "analysing", "explaining", "playing", "quitting"}

NoReq == [fen |-> <<>>, user_move |-> <<>>]

NewTask ==
    [pc |-> "idle", board |-> EmptyBoard, san |-> <<>>, piece_name |-> "",
     info |-> NoInfo, evaluation |-> 0, phase |-> "", quality |-> "",
     out |-> NoOut, explanation |-> <<>>, reply |-> <<>>, ai_move |-> <<>>]

Pending == [kind |-> "pending"]

\* an exception left the handler: the transport answers with a server fault
Fault == [kind |-> "fault"]

ErrorPayload == [kind |-> "error", error |-> "Illegal move."]

Init ==
    /\ req = [r \in Req |-> NoReq]
    /\ task = [r \in Req |-> NewTask]
    /\ engine = [r \in Req |-> "none"]
    /\ ops = [r \in Req |-> <<>>]
    /\ move_log = <<>>
    /\ resp = [r \in Req |-> Pending]
    /\ blocked = 0

\* ---------------------------------------------------------------- actions

SetTask(r, t) == task' = [task EXCEPT ![r] = t]

Issue(r, op) == ops' = [ops EXCEPT ![r] = Append(@, op)]

\* an exception propagates out of the handler at the current await
Raise(r) ==
    /\ SetTask(r, [task[r] EXCEPT !.pc = "fault"])
    /\ resp' = [resp EXCEPT ![r] = Fault]

LogEntryStale(t) ==
    [move |-> t.san, piece |-> t.piece_name, phase |-> t.phase,
     quality |-> t.quality,
     explanation |-> IF move_log # <<>> THEN move_log[Len(move_log)].explanation
                     ELSE t.explanation]

\* the dict built from the handler's locals
LogEntry(t) ==
    [move |-> t.san, piece |-> t.piece_name, phase |-> t.phase,
     quality |-> t.quality, explanation |-> t.explanation]

LogInsertFront(log, e) == <<e>> \o log

\* move_log.append(...)
LogAppend(log, e) == Append(log, e)

RejectsEmptySquareOnly(b, m) == m.from \notin PieceTypes

\* if move not in board.legal_moves
Rejects(b, m) == ~IsLegal(b, m)

\* The request arrives; the handler runs to its first await: decode, validate,
\* SAN and piece name of the position before the move, push, and the call of
\* popen_uci.
Receive(r, Fens, Ucis) ==
    /\ blocked = 0
    /\ task[r].pc = "idle"
    /\ \E f \in Fens, u \in Ucis :
        /\ req' = [req EXCEPT ![r] = [fen |-> f, user_move |-> u]]
        /\ IF ~ValidFen(f) \/ ~ValidUci(u)
           THEN /\ Raise(r)
                /\ UNCHANGED ops
           ELSE LET b == ParseFen(f)
                    m == FromUci(u)
                IN  IF Rejects(b, m)
                    THEN /\ SetTask(r, [task[r] EXCEPT !.pc = "error"])
                         /\ resp' = [resp EXCEPT ![r] = ErrorPayload]
                         /\ UNCHANGED ops
                    ELSE /\ SetTask(r, [task[r] EXCEPT
                                            !.pc = "starting",
                                            !.san = San(b, m),
                                            !.piece_name = PieceName(m),
                                            !.board = Push(b, m)])
                         /\ Issue(r, "popen_uci")
                         /\ UNCHANGED resp
    /\ UNCHANGED <<engine, move_log, blocked>>

\* popen_uci returns the engine; the handler calls engine.analyse.
EngineStarted(r) ==
    /\ blocked = 0
    /\ task[r].pc = "starting"
    /\ engine' = [engine EXCEPT ![r] = "running"]
    /\ SetTask(r, [task[r] EXCEPT !.pc = "analysing"])
    /\ Issue(r, "analyse")
    /\ UNCHANGED <<req, move_log, resp, blocked>>

\* popen_uci raises (the executable cannot be launched).
EngineStartFails(r) ==
    /\ blocked = 0
    /\ task[r].pc = "starting"
    /\ Raise(r)
    /\ UNCHANGED <<req, engine, ops, move_log, blocked>>

AnalyseReturnsScoreRequired(r, Infos) ==
    /\ blocked = 0
    /\ task[r].pc = "analysing"
    /\ \E i \in Infos :
        IF i.kind = "none"
        THEN /\ SetTask(r, [task[r] EXCEPT !.pc = "fault", !.info = i])
             /\ resp' = [resp EXCEPT ![r] = Fault]
             /\ UNCHANGED <<ops, blocked>>
        ELSE LET e == Normalize(task[r].board, RelativeScore(i))
             IN  /\ SetTask(r, [task[r] EXCEPT
                                    !.pc = "explaining",
                                    !.info = i,
                                    !.evaluation = e,
                                    !.phase = game_phase(task[r].board),
                                    !.quality = move_quality(e)])
                 /\ Issue(r, "post")
                 /\ blocked' = r
                 /\ UNCHANGED resp
    /\ UNCHANGED <<req, engine, move_log>>

\* engine.analyse returns info; the handler computes the evaluation, the phase
\* and the quality and enters explain_move, whose requests.post holds the
\* event-loop thread until the backend answers.
AnalyseReturns(r, Infos) ==
    /\ blocked = 0
    /\ task[r].pc = "analysing"
    /\ \E i \in Infos :
        LET e == Normalize(task[r].board, RelativeScore(i))
        IN  SetTask(r, [task[r] EXCEPT
                            !.pc = "explaining",
                            !.info = i,
                            !.evaluation = e,
                            !.phase = game_phase(task[r].board),
                            !.quality = move_quality(e)])
    /\ Issue(r, "post")
    /\ blocked' = r
    /\ UNCHANGED <<req, engine, move_log, resp>>

\* engine.analyse raises (the engine died or timed out); nothing catches it.
AnalyseFails(r) ==
    /\ blocked = 0
    /\ task[r].pc = "analysing"
    /\ Raise(r)
    /\ UNCHANGED <<req, engine, ops, move_log, blocked>>

BackendReturnsUncaught(r, Outs) ==
    /\ blocked = r
    /\ task[r].pc = "explaining"
    /\ \E o \in Outs :
        IF o.kind \in {"raise", "badjson"}
        THEN /\ SetTask(r, [task[r] EXCEPT !.pc = "fault", !.out = o])
             /\ resp' = [resp EXCEPT ![r] = Fault]
             /\ UNCHANGED <<move_log, ops>>
        ELSE LET t == [task[r] EXCEPT !.pc = "playing", !.out = o,
                                      !.explanation = explain_move(o)]
             IN  /\ SetTask(r, t)
                 /\ move_log' = LogAppend(move_log, LogEntry(t))
                 /\ Issue(r, "play")
                 /\ UNCHANGED resp
    /\ blocked' = 0
    /\ UNCHANGED <<req, engine>>

\* The backend call ends (answer or exception); explain_move returns, the
\* entry is appended and the handler calls engine.play.
BackendReturns(r, Outs) ==
    /\ blocked = r
    /\ task[r].pc = "explaining"
    /\ \E o \in Outs :
        LET t == [task[r] EXCEPT !.pc = "playing", !.out = o,
                                 !.explanation = explain_move(o)]
        IN  /\ SetTask(r, t)
            /\ move_log' = LogAppend(move_log, LogEntry(t))
    /\ Issue(r, "play")
    /\ blocked' = 0
    /\ UNCHANGED <<req, engine, resp>>

PlayReturnsRetry(r, Replies) ==
    /\ blocked = 0
    /\ task[r].pc = "playing"
    /\ \/ /\ UNCHANGED task
          /\ Issue(r, "play")
       \/ \E u \in Replies :
            /\ IsLegal(task[r].board, FromUci(u))
            /\ SetTask(r, [task[r] EXCEPT
                               !.pc = "quitting",
                               !.board = Push(task[r].board, FromUci(u)),
                               !.ai_move = MoveUci(FromUci(u))])
            /\ Issue(r, "quit")
    /\ UNCHANGED <<req, engine, move_log, resp, blocked>>

PlayReturnsNoPush(r, Replies) ==
    /\ blocked = 0
    /\ task[r].pc = "playing"
    /\ \/ SetTask(r, [task[r] EXCEPT !.pc = "quitting"])
       \/ \E u \in Replies :
            /\ IsLegal(task[r].board, FromUci(u))
            /\ SetTask(r, [task[r] EXCEPT
                               !.pc = "quitting",
                               !.reply = u,
                               !.ai_move = MoveUci(FromUci(u))])
    /\ Issue(r, "quit")
    /\ UNCHANGED <<req, engine, move_log, resp, blocked>>

\* engine.play returns a move, or no move; the handler pushes it and calls
\* engine.quit.  reply is result.move as the engine gave it (empty: no move).
PlayReturns(r, Replies) ==
    /\ blocked = 0
    /\ task[r].pc = "playing"
    /\ \/ SetTask(r, [task[r] EXCEPT !.pc = "quitting"])
       \/ \E u \in Replies :
            /\ IsLegal(task[r].board, FromUci(u))
            /\ SetTask(r, [task[r] EXCEPT
                               !.pc = "quitting",
                               !.reply = u,
                               !.board = Push(task[r].board, FromUci(u)),
                               !.ai_move = MoveUci(FromUci(u))])
    /\ Issue(r, "quit")
    /\ UNCHANGED <<req, engine, move_log, resp, blocked>>

\* engine.play raises; nothing catches it.
PlayFails(r) ==
    /\ blocked = 0
    /\ task[r].pc = "playing"
    /\ Raise(r)
    /\ UNCHANGED <<req, engine, ops, move_log, blocked>>

QuitReturnsOwnOnly(r) ==
    /\ blocked = 0
    /\ task[r].pc = "quitting"
    /\ engine' = [engine EXCEPT ![r] = "quit"]
    /\ SetTask(r, [task[r] EXCEPT !.pc = "done"])
    /\ resp' = [resp EXCEPT ![r] =
                    [kind |-> "ok",
                     fen |-> BoardFen(task[r].board),
                     ai_move |-> task[r].ai_move,
                     explanation |-> task[r].explanation,
                     history |-> <<LogEntry(task[r])>>]]
    /\ UNCHANGED <<req, ops, move_log, blocked>>

\* engine.quit returns; the handler returns the success payload, whose history
\* is move_log as it is when the response is encoded.
QuitReturns(r) ==
    /\ blocked = 0
    /\ task[r].pc = "quitting"
    /\ engine' = [engine EXCEPT ![r] = "quit"]
    /\ SetTask(r, [task[r] EXCEPT !.pc = "done"])
    /\ resp' = [resp EXCEPT ![r] =
                    [kind |-> "ok",
                     fen |-> BoardFen(task[r].board),
                     ai_move |-> task[r].ai_move,
                     explanation |-> task[r].explanation,
                     history |-> move_log]]
    /\ UNCHANGED <<req, ops, move_log, blocked>>

\* ----------------------------------------------------------- input sets

Full == <<8, 2, 2, 2, 1, 1>>
Six == <<7, 2, 2, 2, 0, 1>>
Five == <<6, 1, 1, 2, 1, 1>>
FiveB == <<2, 2, 2, 1, 0, 1>>
Three == <<4, 0, 1, 1, 1, 1>>
Two == <<3, 0, 0, 2, 0, 1>>
TwoB == <<1, 1, 1, 0, 0, 1>>
Bare == <<2, 0, 0, 0, 0, 1>>

BadFen == <<Full, "w">>

BadUci == <<"P">>

QuietPawn == <<"P", "empty", "none", TRUE>>

BlockedRook == <<"R", "empty", "none", FALSE>>

\* the concurrent specification: few inputs, several requests
Fens == {<<Five, FiveB, "w">>, <<Three, Two, "b">>}

Ucis == {QuietPawn, BlockedRook}

Infos == {[kind |-> "cp", v |-> 120], [kind |-> "none", v |-> 0]}

Outs == {[kind |-> "raise", text |-> <<>>], [kind |-> "text", text |-> <<"o", "k", "\n">>]}

Replies == {QuietPawn}

Step(r) ==
    \/ Receive(r, Fens, Ucis)
    \/ EngineStarted(r)
    \/ EngineStartFails(r)
    \/ AnalyseReturns(r, Infos)
    \/ AnalyseFails(r)
    \/ BackendReturns(r, Outs)
    \/ PlayReturns(r, Replies)
    \/ PlayFails(r)
    \/ QuitReturns(r)

Next == \E r \in Req : Step(r)

Spec == Init /\ [][Next]_vars

\* The single-request specification: many inputs, one request.
WideReq == {1}

WideFens ==
    {<<w, b, t>> : w \in {Full}, b \in {Full}, t \in {"w", "b"}}
    \cup {<<Six, Five, "w">>, <<Five, Six, "b">>, <<Five, FiveB, "w">>,
          <<FiveB, Five, "b">>, <<Three, Two, "w">>, <<Three, TwoB, "b">>,
          <<Two, TwoB, "w">>, <<TwoB, Two, "b">>, <<Bare, Bare, "w">>,
          <<Bare, Bare, "b">>, BadFen}

WideUcis ==
    {<<f, t, "none", TRUE>> : f \in {"P", "N", "R", "K"}, t \in {"empty", "P", "N", "Q"}}
    \cup {<<"P", "empty", "Q", TRUE>>, <<"P", "N", "N", TRUE>>,
          <<"N", "empty", "Q", TRUE>>, <<"R", "K", "none", TRUE>>,
          <<"empty", "empty", "none", TRUE>>, <<"opp", "empty", "none", TRUE>>,
          <<"R", "own", "none", TRUE>>, BlockedRook, BadUci}

WideCps == {-300, -299, -100, -99, -80, -79, -30, -29, 0, 29, 30, 79, 80, 99, 100, 299, 300}

WideInfos ==
    {[kind |-> "cp", v |-> c] : c \in WideCps}
    \cup {[kind |-> "mate", v |-> n] : n \in {-2, 0, 3}}
    \cup {[kind |-> "none", v |-> 0]}

WideTexts ==
    {<<>>, <<" ">>, <<"\n", " ">>, <<"o", "k">>, <<" ", "o", "k">>,
     <<"o", " ", "k", " ", "\n">>, <<"\n", "o", " ", " ", "k", " ">>}

WideOuts ==
    {[kind |-> k, text |-> <<>>] : k \in {"raise", "badjson", "notdict", "nokey", "null"}}
    \cup {[kind |-> "text", text |-> t] : t \in WideTexts}

WideReplies ==
    {QuietPawn, <<"K", "empty", "none", TRUE>>, <<"R", "P", "none", TRUE>>,
     <<"R", "N", "none", TRUE>>}

WideStep(r) ==
    \/ Receive(r, WideFens, WideUcis)
    \/ EngineStarted(r)
    \/ EngineStartFails(r)
    \/ AnalyseReturns(r, WideInfos)
    \/ AnalyseFails(r)
    \/ BackendReturns(r, WideOuts)
    \/ PlayReturns(r, WideReplies)
    \/ PlayFails(r)
    \/ QuitReturns(r)

NextWide == \E r \in WideReq : WideStep(r)

SpecWide == Init /\ [][NextWide]_vars

\* ------------------------------------------------------------- properties

IsPrefix(s, t) == Len(s) <= Len(t) /\ SubSeq(t, 1, Len(s)) = s

\* the request has passed move_log.append
Appended(r) == \E i \in 1..Len(ops[r]) : ops[r][i] = "play"

EntryOf(r) ==
    [move |-> task[r].san, piece |-> task[r].piece_name, phase |-> task[r].phase,
     quality |-> task[r].quality, explanation |-> task[r].explanation]

\* C1: a request whose move decodes but is not a legal move of its position is
\* answered with exactly the payload {error: "Illegal move."}, starts no engine
\* and issues no engine or backend call, and leaves move_log as it was; a
\* rejected request takes no further step.
C1_IllegalMoveRejected ==
    [][\A r \in Req :
        /\ ( /\ task[r].pc = "idle"
             /\ task'[r].pc # "idle"
             /\ ValidFen(req'[r].fen)
             /\ ValidUci(req'[r].user_move)
             /\ ~IsLegal(ParseFen(req'[r].fen), FromUci(req'[r].user_move)) )
           => /\ resp'[r] = ErrorPayload
              /\ engine'[r] = "none"
              /\ ops'[r] = <<>>
              /\ move_log' = move_log
        /\ resp[r] = ErrorPayload
           => /\ resp'[r] = ErrorPayload
              /\ engine'[r] = "none"
              /\ ops'[r] = <<>>
              /\ task'[r] = task[r]]_vars

\* C1 witness: a request was rejected as illegal while move_log holds an entry
C1_Witness ==
    \E r \in Req :
        /\ resp[r] = ErrorPayload
        /\ ~IsLegal(ParseFen(req[r].fen), FromUci(req[r].user_move))
        /\ Len(move_log) > 0

\* C2: for every successful request the normalized evaluation is the negation of
\* the engine's score relative to the side to move, whichever colour the human plays.
C2_EvaluationIsNegatedScore ==
    \A r \in Req :
        task[r].pc = "done" => task[r].evaluation = -RelativeScore(task[r].info)

\* C3: once every request has ended, the length of move_log is the number of
\* requests that completed successfully; a failed request adds no entry.
C3_LedgerCountsSuccesses ==
    (\A r \in Req : task[r].pc \in Terminal \cup {"idle"})
        => Len(move_log) = Cardinality({r \in Req : task[r].pc = "done"})

\* C4: no request ends with its engine process still running.
C4_EngineTerminatedAtEnd ==
    \A r \in Req : task[r].pc \in Terminal => engine[r] # "running"

\* C5: while a request is suspended in an engine call or in the backend call,
\* every other unfinished request can take its next step.
C5_OthersCanProgress ==
    \A r \in Req, q \in Req :
        (r # q /\ task[r].pc \in Suspended /\ task[q].pc \notin Terminal)
            => ENABLED Step(q)

\* C6: the quality label is the first-match threshold label of the evaluation:
\* e <= -300 blunder, -300 < e <= -100 mistake, -100 < e <= -30 inaccuracy,
\* e >= 80 strong, otherwise neutral; the eight boundary values get the labels
\* the claim lists.
C6_QualityThresholds ==
    \A r \in Req :
        task[r].quality # "" =>
            LET e == task[r].evaluation
                q == task[r].quality
            IN  /\ (e <= -300) => q = "blunder"
                /\ (-300 < e /\ e <= -100) => q = "mistake"
                /\ (-100 < e /\ e <= -30) => q = "inaccuracy"
                /\ (e >= 80) => q = "strong"
                /\ (-30 < e /\ e < 80) => q = "neutral"
                /\ (e = -300) => q = "blunder"
                /\ (e \in {-299, -100}) => q = "mistake"
                /\ (e \in {-99, -30}) => q = "inaccuracy"
                /\ (e \in {-29, 79}) => q = "neutral"
                /\ (e = 80) => q = "strong"

\* C6 witness: an evaluation of exactly -300 was classified
C6_Witness ==
    \E r \in Req : task[r].quality = "blunder" /\ task[r].evaluation = -300

\* the queens, rooks, bishops and knights of both colours
MinorMajorCount(b) ==
    LET n(c, p) == Material(b, c)[p]
    IN  n("w", "Q") + n("w", "R") + n("w", "B") + n("w", "N")
        + n("b", "Q") + n("b", "R") + n("b", "B") + n("b", "N")

\* C7: the phase computed for the position after the human's move is opening
\* when the count n of queens, rooks, bishops and knights of both colours is
\* above 10, middlegame when 4 < n <= 10, endgame when n <= 4, and every other
\* position with the same n gets the same phase, whatever its side to move,
\* pawns and distribution of the pieces.
C7_PhaseFromCount ==
    \A r \in Req :
        task[r].pc \in {"explaining", "playing"} =>
            LET n == MinorMajorCount(task[r].board)
            IN  /\ n > 10 => task[r].phase = "opening"
                /\ (4 < n /\ n <= 10) => task[r].phase = "middlegame"
                /\ n <= 4 => task[r].phase = "endgame"
                /\ \A f \in WideFens :
                       (ValidFen(f) /\ MinorMajorCount(ParseFen(f)) = n)
                           => game_phase(ParseFen(f)) = task[r].phase

\* C7 witness: a position with exactly ten such pieces, unevenly split between
\* the colours, was classified
C7_Witness ==
    \E r \in Req :
        /\ task[r].pc = "explaining"
        /\ MinorMajorCount(task[r].board) = 10
        /\ task[r].board.w["N"] # task[r].board.b["N"]
        /\ task[r].phase = "middlegame"

AllWhitespace(s) == \A i \in 1..Len(s) : s[i] \in Whitespace

\* x is s without its leading and trailing whitespace
IsTrimOf(x, s) ==
    /\ x # <<>>
    /\ x[1] \notin Whitespace
    /\ x[Len(x)] \notin Whitespace
    /\ \E i \in 1..Len(s) :
          /\ i + Len(x) - 1 <= Len(s)
          /\ SubSeq(s, i, i + Len(x) - 1) = x
          /\ AllWhitespace(SubSeq(s, 1, i - 1))
          /\ AllWhitespace(SubSeq(s, i + Len(x), Len(s)))

\* C8: explain_move never raises: the step that ends the backend call always
\* continues the handler, with "No explanation available." when the call threw,
\* "Move noted." when it succeeded with an empty, whitespace-only or missing
\* response text, and the trimmed response text otherwise.
C8_CommentaryFallbacks ==
    [][\A r \in Req :
        (task[r].pc = "explaining" /\ task'[r].pc # "explaining") =>
            LET o == task'[r].out
                x == task'[r].explanation
            IN  /\ task'[r].pc = "playing"
                /\ o.kind \in {"raise", "badjson", "notdict", "null"}
                       => x = NoExplanation
                /\ (o.kind = "nokey" \/ (o.kind = "text" /\ AllWhitespace(o.text)))
                       => x = MoveNoted
                /\ (o.kind = "text" /\ ~AllWhitespace(o.text))
                       => IsTrimOf(x, o.text)]_vars

\* C8 witness: both fallbacks' neighbour case, a whitespace-only reply, was handled
C8_Witness ==
    \E r \in Req :
        /\ task[r].pc = "playing"
        /\ task[r].out.kind = "text"
        /\ task[r].out.text # <<>>
        /\ AllWhitespace(task[r].out.text)
        /\ task[r].explanation = MoveNoted

\* C9: move_log starts empty and every step leaves it unchanged or appends
\* exactly one entry: the old log is a prefix of the new one.
C9_AppendOnly ==
    /\ move_log = <<>>
    /\ [][/\ IsPrefix(move_log, move_log')
          /\ Len(move_log') <= Len(move_log) + 1]_vars

\* C9 witness: two different entries were appended
C9_Witness == Len(move_log) = 2 /\ move_log[1] # move_log[2]

IsWholeEntry(e) ==
    /\ DOMAIN e = {"move", "piece", "phase", "quality", "explanation"}
    /\ \E r \in Req : Appended(r) /\ e = EntryOf(r)

\* C10: every entry of move_log, and of every history returned in a response,
\* has exactly the five fields and they are the values of one and the same
\* request that has passed its append; move_log holds one entry per such request.
C10_EntriesWhole ==
    /\ \A i \in 1..Len(move_log) : IsWholeEntry(move_log[i])
    /\ Len(move_log) = Cardinality({r \in Req : Appended(r)})
    /\ \A r \in Req :
          resp[r].kind = "ok" =>
              \A i \in 1..Len(resp[r].history) : IsWholeEntry(resp[r].history[i])

\* C10 witness: two requests with different commentary were appended while
\* both were in flight, and one of them has been answered
C10_Witness ==
    /\ Len(move_log) = 2
    /\ move_log[1].explanation # move_log[2].explanation
    /\ \E r \in Req : resp[r].kind = "ok" /\ Len(resp[r].history) = 2
    /\ \E r \in Req : task[r].pc = "playing"

\* what the backend did makes the try block of explain_move throw
BackendThrew(o) == o.kind \in {"raise", "badjson", "notdict", "null"}

\* C11: whatever the backend call does, the step that ends it continues the
\* handler (no fault, no response yet) and appends exactly one entry, whose
\* commentary is the fallback text when the backend threw or answered nothing;
\* a request only ends in a fault at an engine call, never at the commentary
\* step, and one that ends successfully returns that same commentary.
C11_CommentaryNeverFails ==
    [][\A r \in Req :
        /\ (task[r].pc = "explaining" /\ task'[r].pc # "explaining") =>
              LET o == task'[r].out
                  x == task'[r].explanation
              IN  /\ task'[r].pc = "playing"
                  /\ resp'[r] = Pending
                  /\ Len(move_log') = Len(move_log) + 1
                  /\ move_log'[Len(move_log')].explanation = x
                  /\ BackendThrew(o) => x = NoExplanation
                  /\ (o.kind = "nokey" \/ (o.kind = "text" /\ AllWhitespace(o.text)))
                         => x = MoveNoted
        /\ (task[r].pc # "fault" /\ task'[r].pc = "fault" /\ ops[r] # <<>>)
              => ops[r][Len(ops[r])] \in {"popen_uci", "analyse", "play"}
        /\ (task[r].pc = "quitting" /\ task'[r].pc # "quitting") =>
              /\ resp'[r].kind = "ok"
              /\ resp'[r].explanation = task[r].explanation
              /\ \E i \in 1..Len(move_log') : move_log'[i] = EntryOf(r)]_vars

\* C11 witness: the backend call raised and the request still succeeded, with
\* the fallback as its commentary and its entry in move_log
C11_Witness ==
    \E r \in Req :
        /\ task[r].out.kind = "raise"
        /\ resp[r].kind = "ok"
        /\ resp[r].explanation = NoExplanation
        /\ Len(move_log) = 1
        /\ move_log[1].explanation = NoExplanation

\* C12: a request whose position or move encoding cannot be decoded is answered
\* with a handled, structured error (not a server fault), starts no engine and
\* leaves move_log unchanged.
C12_MalformedInputHandled ==
    \A r \in Req :
        (task[r].pc # "idle" /\ (~ValidFen(req[r].fen) \/ ~ValidUci(req[r].user_move)))
            => /\ resp[r].kind = "error"
               /\ engine[r] = "none"
               /\ ops[r] = <<>>
               /\ move_log = <<>>

\* the external calls of one request, in the order of the handler
CallOrder == <<"popen_uci", "analyse", "post", "play", "quit">>

\* C13: the calls a request issues are, in this order and each at most once,
\* engine start, analyse, commentary call, reply-move request, quit; only a
\* request that passed validation issues any; the engine is running from the
\* return of start to the return of quit, so analyse and play go to the same
\* live session and nothing is issued after quit; move_log grows exactly in
\* the step that then issues the reply-move request, by that request's entry.
C13_StepOrder ==
    [][\A r \in Req :
        /\ IsPrefix(ops'[r], CallOrder)
        /\ IsPrefix(ops[r], ops'[r])
        /\ Len(ops'[r]) <= Len(ops[r]) + 1
        /\ ops'[r] # <<>> =>
              /\ ValidFen(req'[r].fen)
              /\ ValidUci(req'[r].user_move)
              /\ IsLegal(ParseFen(req'[r].fen), FromUci(req'[r].user_move))
        /\ Len(ops'[r]) <= 1 => engine'[r] = "none"
        /\ (Len(ops'[r]) >= 2 /\ task'[r].pc # "done") => engine'[r] = "running"
        /\ task'[r].pc = "done" => (engine'[r] = "quit" /\ ops'[r] = CallOrder)
        /\ engine[r] = "quit" => ops'[r] = ops[r]
        /\ (Len(ops[r]) = 3 /\ Len(ops'[r]) = 4) =>
              move_log' = Append(move_log,
                                 [move |-> task'[r].san, piece |-> task'[r].piece_name,
                                  phase |-> task'[r].phase, quality |-> task'[r].quality,
                                  explanation |-> task'[r].explanation])
        /\ move_log' # move_log =>
              \E q \in Req : Len(ops[q]) = 3 /\ Len(ops'[q]) = 4]_vars

\* C13 witness: a request went through all its calls and was answered while
\* another request was between its analyse and its reply-move request
C13_Witness ==
    \E r \in Req, q \in Req :
        /\ ops[r] = CallOrder
        /\ task[r].pc = "done"
        /\ engine[r] = "quit"
        /\ task[q].pc = "explaining"

\* C14: a successful response holds, when the engine gave a reply move, the
\* request position with the human's move and then the reply applied and the
\* reply's encoding as ai_move; when the engine gave no move, the request
\* position with only the human's move applied and an empty ai_move; in both
\* cases the request's entry is in move_log.
C14_ReplyApplied ==
    \A r \in Req :
        resp[r].kind = "ok" =>
            LET pre == ParseFen(req[r].fen)
                human == Push(pre, FromUci(req[r].user_move))
            IN  /\ task[r].reply # <<>> =>
                      /\ resp[r].ai_move = task[r].reply
                      /\ ParseFen(resp[r].fen) = Push(human, FromUci(task[r].reply))
                /\ task[r].reply = <<>> =>
                      /\ resp[r].ai_move = <<>>
                      /\ ParseFen(resp[r].fen) = human
                /\ \E i \in 1..Len(move_log) : move_log[i] = EntryOf(r)

\* C14 witness: the engine answered a capture with a capture, and the response
\* holds the position after both
C14_Witness ==
    \E r \in Req :
        /\ resp[r].kind = "ok"
        /\ FromUci(req[r].user_move).to \in PieceTypes
        /\ task[r].reply = <<"R", "N", "none", TRUE>>
        /\ ParseFen(resp[r].fen) # Push(ParseFen(req[r].fen), FromUci(req[r].user_move))

\* C14 witness of the other case is reached too: no reply move
C14_NoMoveReached ==
    \E r \in Req : resp[r].kind = "ok" /\ task[r].reply = <<>> /\ resp[r].ai_move = <<>>

\* the engine's answer is a forced mate for the side to move (the opponent of
\* the human, who has just moved): positive v, the opponent mates; v <= 0, the
\* opponent is being mated (0: it is checkmated already)
OpponentMates(info) == info.kind = "mate" /\ info.v > 0

HumanMates(info) == info.kind = "mate" /\ info.v <= 0

\* C15: for a forced mate the evaluation has magnitude at most 10000 and the
\* human's sign: positive and classified strong when the human mates, negative
\* and classified blunder when the human is being mated, for either colour.
C15_MateSentinelSigned ==
    \A r \in Req :
        (task[r].quality # "" /\ task[r].info.kind = "mate") =>
            /\ task[r].evaluation <= MateScore
            /\ task[r].evaluation >= -MateScore
            /\ HumanMates(task[r].info)
                  => (task[r].evaluation > 0 /\ task[r].quality = "strong")
            /\ OpponentMates(task[r].info)
                  => (task[r].evaluation < 0 /\ task[r].quality = "blunder")

\* C16: an analyse answer without a score is no error: the step that receives
\* it goes on to the commentary call with evaluation 0 and quality neutral,
\* whichever side is to move, and the request then appends its entry, with
\* that quality, and asks for the reply like any other.
C16_NoScoreIsNeutral ==
    [][\A r \in Req :
        /\ (task[r].pc = "analysing" /\ task'[r].info.kind = "none") =>
              /\ task'[r].pc = "explaining"
              /\ resp'[r] = Pending
              /\ task'[r].evaluation = 0
              /\ task'[r].quality = "neutral"
              /\ ops'[r] = Append(ops[r], "post")
        /\ (task[r].pc = "explaining" /\ task[r].info.kind = "none"
            /\ task'[r].pc # "explaining") =>
              /\ task'[r].pc = "playing"
              /\ ops'[r] = Append(ops[r], "play")
              /\ Len(move_log') = Len(move_log) + 1
              /\ move_log'[Len(move_log')].quality = "neutral"]_vars

\* C16 witness: a request of the human playing Black got no score and was
\* answered successfully with a neutral entry
C16_Witness ==
    \E r \in Req :
        /\ task[r].info.kind = "none"
        /\ req[r].fen[3] = "b"
        /\ resp[r].kind = "ok"
        /\ task[r].evaluation = 0
        /\ move_log[1].quality = "neutral"

\* C17: the history of a success response is the whole of move_log as it is
\* when the response is made; it holds the request's own entry, whose
\* explanation is the response's explanation (entries of other requests may
\* follow it); a response once made does not change, and its history stays a
\* prefix of move_log.
C17_HistoryIsLedgerCopy ==
    [][\A r \in Req :
        /\ (task[r].pc = "quitting" /\ task'[r].pc = "done") =>
              /\ resp'[r].kind = "ok"
              /\ resp'[r].history = move_log'
              /\ \E i \in 1..Len(resp'[r].history) :
                    /\ resp'[r].history[i] = EntryOf(r)
                    /\ resp'[r].history[i].explanation = resp'[r].explanation
        /\ resp[r].kind = "ok" =>
              /\ resp'[r] = resp[r]
              /\ IsPrefix(resp[r].history, move_log')]_vars

\* C17 witness: a response whose history holds the request's own entry first
\* and a different entry, of the other request, after it
C17_Witness ==
    \E r \in Req :
        /\ resp[r].kind = "ok"
        /\ Len(resp[r].history) = 2
        /\ resp[r].history[1] = EntryOf(r)
        /\ resp[r].history[2] # EntryOf(r)
        /\ resp[r].history[1].explanation = resp[r].explanation

Qualities == {"blunder", "mistake", "inaccuracy", "neutral", "strong"}

Phases == {"opening", "middlegame", "endgame"}

NameOfPiece ==
    [P |-> "pawn", N |-> "knight", B |-> "bishop", R |-> "rook", Q |-> "queen",
     K |-> "king"]

\* C18: every entry of move_log has a quality, a phase and a piece name of the
\* fixed sets, never the fallback name "piece"; the entry of a request holds the
\* notation and the piece of its move in the position before the move, and the
\* phase and quality of the position after the move, whatever the engine then
\* replies.
C18_EntryFields ==
    /\ \A i \in 1..Len(move_log) :
          /\ move_log[i].quality \in Qualities
          /\ move_log[i].phase \in Phases
          /\ move_log[i].piece \in {NameOfPiece[p] : p \in PieceTypes}
          /\ move_log[i].piece # "piece"
    /\ \A r \in Req :
          Appended(r) =>
              LET pre == ParseFen(req[r].fen)
                  m == FromUci(req[r].user_move)
                  post == Push(pre, m)
                  e == EntryOf(r)
              IN  /\ \E i \in 1..Len(move_log) : move_log[i] = e
                  /\ IsLegal(pre, m)
                  /\ e.move = San(pre, m)
                  /\ e.piece = NameOfPiece[m.from]
                  /\ e.phase = game_phase(post)
                  /\ e.quality =
                        move_quality(Normalize(post, RelativeScore(task[r].info)))

\* C18 witness: the entry of a king move, whose phase is that of the position
\* before the engine's reply and no longer that of the returned position
C18_Witness ==
    \E r \in Req :
        /\ resp[r].kind = "ok"
        /\ move_log[1].piece = "king"
        /\ move_log[1].phase = "opening"
        /\ game_phase(task[r].board) = "middlegame"

====
